---- MODULE Spec2Model ----
(***************************************************************************)
(* py-ssz: persistent hashable structures (ssz/hashable_structure.py,      *)
(* ssz/hashable_list.py, ssz/hashable_vector.py) and their evolvers.       *)
(*                                                                         *)
(* Bytes are sequences of numbers 0..255.  A chunk is a sequence of        *)
(* CHUNK_SIZE bytes.  The hash H is modelled as a free (collision-free)    *)
(* constructor: H(a, b) is the pair <<a, b>>, which is never equal to a    *)
(* chunk and equal to another hash only when both arguments are equal.     *)
(*                                                                         *)
(* A Python call either returns a value or raises; both are modelled by an *)
(* outcome record [kind, value, error]: kind = "ok" with the value, or     *)
(* kind = "raise" with the name of the exception in error.                 *)
(***************************************************************************)
EXTENDS Integers, Sequences, FiniteSets, TLC

\* ------------------------------------------------------------------ bounds
\* user values are 0 .. MaxValue
MaxValue == 1
\* from_iterable is given at most MaxLen elements
MaxLen == 2
\* an evolver records at most MaxAppended appended elements
MaxAppended == 2
\* evolvers alive at the same time
NumEvolvers == 2
\* a decoder's sedes is nested at most MaxDepth deep
MaxDepth == 2
\* a byte string given to a decoder is made of at most MaxPieces pieces
MaxPieces == 3

\* --------------------------------------------------------------- constants
CHUNK_SIZE == 32
UINT128_SIZE == 16
BYTES16_SIZE == 16
\* max_length of the list sedes of the tests, length limit of the model's sedes
MAX_LENGTH == 4
\* the size of the length prefix of a variable-length value
LENGTH_PREFIX_SIZE == 4

Values == 0 .. MaxValue

\* ------------------------------------------------------------------- bytes
Max(a, b) == IF a >= b THEN a ELSE b
Min(a, b) == IF a <= b THEN a ELSE b

\* b"\x00" * n
ZeroBytes(n) == [i \in 1 .. n |-> 0]
ZERO_BYTES32 == ZeroBytes(CHUNK_SIZE)

\* python slices s[:n] and s[n:] for n >= 0
Take(s, n) == SubSeq(s, 1, Min(n, Len(s)))
Drop(s, n) == SubSeq(s, Min(n, Len(s)) + 1, Len(s))

RECURSIVE Concat(_)
\* b"".join(parts)
Concat(parts) == IF parts = <<>> THEN <<>> ELSE Head(parts) \o Concat(Tail(parts))

RECURSIVE ToBytesLE(_, _)
\* int.to_bytes(n, "little")
ToBytesLE(v, n) == IF n = 0 THEN <<>> ELSE <<v % 256>> \o ToBytesLE(v \div 256, n - 1)

\* ------------------------------------------------------------------ hasher
\* hash_eth2(a + b), as a free constructor
H(a, b) == <<a, b>>

\* ------------------------------------------------------------ python calls
Ok(v) == [kind |-> "ok", value |-> v, error |-> "none"]
Raise(e) == [kind |-> "raise", value |-> <<>>, error |-> e]
IsOk(r) == r.kind = "ok"

\* the messages of the TypeError python raises when a call does not fit the signature
MISSING_ARG == "TypeError: get_updated_chunks() missing 1 required positional argument: 'num_padding_elements'"
EXTRA_ARG == "TypeError: get_appended_chunks() takes 2 positional arguments but 3 were given"
ODD_ARGS == "TypeError: mset must be called with an even number of arguments"
INDEX_ERROR == "IndexError"
VALUE_ERROR == "ValueError"
ATTRIBUTE_ERROR == "AttributeError"

\* ------------------------------------------------------------ python dicts
\* A dict is the sequence of its <<key, value>> items in insertion order, keys unique.
DictKeys(d) == [k \in 1 .. Len(d) |-> d[k][1]]
DictValues(d) == [k \in 1 .. Len(d) |-> d[k][2]]
DictHas(d, key) == \E k \in 1 .. Len(d) : d[k][1] = key
DictGet(d, key) == d[CHOOSE k \in 1 .. Len(d) : d[k][1] = key][2]
\* d[key] = value: an existing key keeps its place
DictSet(d, key, value) ==
    IF DictHas(d, key)
    THEN [k \in 1 .. Len(d) |-> IF d[k][1] = key THEN <<key, value>> ELSE d[k]]
    ELSE Append(d, <<key, value>>)

RECURSIVE DictMerge(_, _)
\* {**a, **b}
DictMerge(a, b) ==
    IF b = <<>> THEN a ELSE DictMerge(DictSet(a, Head(b)[1], Head(b)[2]), Tail(b))

\* dict(enumerate(s, start=start))
Enumerate(s, start) == [k \in 1 .. Len(s) |-> <<start + k - 1, s[k]>>]

\* python s[:n], also for negative n
SliceTo(s, n) == IF n >= 0 THEN Take(s, n) ELSE Take(s, Max(Len(s) + n, 0))
\* python s[n:], also for negative n
SliceFrom(s, n) == IF n >= 0 THEN Drop(s, n) ELSE Drop(s, Max(Len(s) + n, 0))

\* ---------------------------------------------------------------- chunking
\* a replacement that does not check the index
update_element_in_chunk_NoIndexCheck(original_chunk, index, element) ==
    LET element_size == Len(element)
        chunk_size == Len(original_chunk)
    IN  IF element_size = 0 THEN Raise(VALUE_ERROR)
        ELSE IF chunk_size % element_size # 0 THEN Raise(VALUE_ERROR)
        ELSE LET first_byte_index == index * element_size
                 last_byte_index == first_byte_index + element_size
                 prefix == SliceTo(original_chunk, first_byte_index)
                 suffix == SliceFrom(original_chunk, last_byte_index)
             IN  Ok(prefix \o element \o suffix)

\* update_element_in_chunk(original_chunk, index, element)
update_element_in_chunk(original_chunk, index, element) ==
    LET element_size == Len(element)
        chunk_size == Len(original_chunk)
    IN  IF element_size = 0 THEN Raise(VALUE_ERROR)
        ELSE IF chunk_size % element_size # 0 THEN Raise(VALUE_ERROR)
        ELSE IF ~(0 <= index /\ index < chunk_size \div element_size) THEN Raise(INDEX_ERROR)
        ELSE LET first_byte_index == index * element_size
                 last_byte_index == first_byte_index + element_size
                 prefix == SliceTo(original_chunk, first_byte_index)
                 suffix == SliceFrom(original_chunk, last_byte_index)
             IN  Ok(prefix \o element \o suffix)

RECURSIVE update_elements_in_chunk(_, _)
\* update_elements_in_chunk(original_chunk, updated_elements): the items of the dict
\* are passed one by one, in the dict's order, to update_element_in_chunk
update_elements_in_chunk(original_chunk, updated_elements) ==
    IF updated_elements = <<>> THEN Ok(original_chunk)
    ELSE LET first == update_element_in_chunk(
                          original_chunk, Head(updated_elements)[1], Head(updated_elements)[2])
         IN  IF IsOk(first)
             THEN update_elements_in_chunk(first.value, Tail(updated_elements))
             ELSE first

\* a padding count that is always 0
get_num_padding_elements_Zero(num_original_chunks, num_original_elements, element_size) == 0

\* get_num_padding_elements(num_original_chunks, num_original_elements, element_size)
get_num_padding_elements(num_original_chunks, num_original_elements, element_size) ==
    LET total_size == num_original_chunks * CHUNK_SIZE
        used_size == num_original_elements * element_size
        padding_size == total_size - used_size
        num_elements_in_padding == padding_size \div element_size
    IN  num_elements_in_padding

RECURSIVE GroupBy(_, _, _)
\* toolz.groupby(lambda element_index: element_index // elements_per_chunk, keys):
\* a dict from chunk index to the list of its element indices, both in encounter order
GroupBy(elements_per_chunk, keys, acc) ==
    IF keys = <<>> THEN acc
    ELSE LET g == Head(keys) \div elements_per_chunk
             old == IF DictHas(acc, g) THEN DictGet(acc, g) ELSE <<>>
         IN  GroupBy(elements_per_chunk, Tail(keys), DictSet(acc, g, Append(old, Head(keys))))

RECURSIVE UpdatedChunksLoop(_, _, _, _, _)
\* the loop of get_updated_chunks over element_indices_by_chunk.items()
UpdatedChunksLoop(groups, effective_updated_elements, elements_per_chunk, original_chunks, acc) ==
    IF groups = <<>> THEN Ok(acc)
    ELSE LET chunk_index == Head(groups)[1]
             element_indices == Head(groups)[2]
             chunk_updates ==
                 DictMerge(<<>>, [k \in 1 .. Len(element_indices) |->
                     <<element_indices[k] % elements_per_chunk,
                       DictGet(effective_updated_elements, element_indices[k])>>])
         IN  IF ~(chunk_index + 1 \in 1 .. Len(original_chunks)) THEN Raise(INDEX_ERROR)
             ELSE LET updated_chunk ==
                          update_elements_in_chunk(original_chunks[chunk_index + 1], chunk_updates)
                  IN  IF ~IsOk(updated_chunk) THEN updated_chunk
                      ELSE UpdatedChunksLoop(Tail(groups), effective_updated_elements,
                               elements_per_chunk, original_chunks,
                               DictSet(acc, chunk_index, updated_chunk.value))

\* an update that takes every appended element for a padding element
get_updated_chunks_AllAppended(updated_elements, appended_elements, original_chunks, num_original_elements, num_padding_elements) ==
    IF updated_elements = <<>> /\ appended_elements = <<>> THEN Ok(<<>>)
    ELSE LET some_element == IF updated_elements # <<>>
                             THEN DictValues(updated_elements)[1]
                             ELSE appended_elements[1]
             elements_per_chunk == CHUNK_SIZE \div Len(some_element)
             effective_updated_elements ==
                 DictMerge(updated_elements,
                           DictMerge(<<>>, Enumerate(appended_elements, num_original_elements)))
         IN  UpdatedChunksLoop(
                 GroupBy(elements_per_chunk, DictKeys(effective_updated_elements), <<>>),
                 effective_updated_elements, elements_per_chunk, original_chunks, <<>>)

\* get_updated_chunks(updated_elements, appended_elements, original_chunks,
\*                    num_original_elements, num_padding_elements)
get_updated_chunks(updated_elements, appended_elements, original_chunks, num_original_elements, num_padding_elements) ==
    LET effective_appended_elements == SliceTo(appended_elements, num_padding_elements)
    IN  IF updated_elements = <<>> /\ effective_appended_elements = <<>> THEN Ok(<<>>)
        ELSE LET some_element == IF updated_elements # <<>>
                                 THEN DictValues(updated_elements)[1]
                                 ELSE effective_appended_elements[1]
                 element_size == Len(some_element)
             IN  IF element_size = 0 THEN Raise("ZeroDivisionError")
                 ELSE LET elements_per_chunk == CHUNK_SIZE \div element_size
                          padding_elements_with_indices ==
                              DictMerge(<<>>, Enumerate(effective_appended_elements,
                                                        num_original_elements))
                          effective_updated_elements ==
                              DictMerge(updated_elements, padding_elements_with_indices)
                          element_indices == DictKeys(effective_updated_elements)
                      IN  IF elements_per_chunk = 0 THEN Raise("ZeroDivisionError")
                          ELSE UpdatedChunksLoop(
                                   GroupBy(elements_per_chunk, element_indices, <<>>),
                                   effective_updated_elements, elements_per_chunk,
                                   original_chunks, <<>>)

RECURSIVE Partition(_, _, _)
\* toolz.partition(n, seq, pad=pad): tuples of n, the last one filled up with pad
Partition(n, seq, pad) ==
    IF seq = <<>> THEN <<>>
    ELSE IF Len(seq) < n
         THEN << seq \o [k \in 1 .. n - Len(seq) |-> pad] >>
         ELSE << Take(seq, n) >> \o Partition(n, Drop(seq, n), pad)

\* a packing that puts two elements into every chunk, whatever their size
get_appended_chunks_TwoPerChunk(appended_elements, num_padding_elements) ==
    IF Len(appended_elements) <= num_padding_elements THEN Ok(<<>>)
    ELSE LET chunk_partitioned_elements ==
                 Partition(2, SliceFrom(appended_elements, num_padding_elements),
                           ZeroBytes(Len(appended_elements[1])))
         IN  Ok([k \in 1 .. Len(chunk_partitioned_elements) |->
                    Concat(chunk_partitioned_elements[k])])

\* a packing that does not drop the elements that went into the padding
get_appended_chunks_NoDrop(appended_elements, num_padding_elements) ==
    IF Len(appended_elements) <= num_padding_elements THEN Ok(<<>>)
    ELSE LET elements_per_chunk == CHUNK_SIZE \div Len(appended_elements[1])
             chunk_partitioned_elements ==
                 Partition(elements_per_chunk, appended_elements,
                           ZeroBytes(Len(appended_elements[1])))
         IN  Ok([k \in 1 .. Len(chunk_partitioned_elements) |->
                    Concat(chunk_partitioned_elements[k])])

\* get_appended_chunks(appended_elements, num_padding_elements)
get_appended_chunks(appended_elements, num_padding_elements) ==
    IF Len(appended_elements) <= num_padding_elements THEN Ok(<<>>)
    ELSE LET some_element == appended_elements[1]
             element_size == Len(some_element)
         IN  IF element_size = 0 THEN Raise("ZeroDivisionError")
             ELSE IF element_size > CHUNK_SIZE THEN Ok(<<>>)
             ELSE LET elements_per_chunk == CHUNK_SIZE \div element_size
                      chunk_partitioned_elements ==
                          Partition(elements_per_chunk,
                                    SliceFrom(appended_elements, num_padding_elements),
                                    ZeroBytes(element_size))
                  IN  Ok([k \in 1 .. Len(chunk_partitioned_elements) |->
                             Concat(chunk_partitioned_elements[k])])

\* A call with positional arguments args: python binds them to the parameters of
\* the signature and raises TypeError when their number does not fit.
call_get_updated_chunks(args) ==
    IF Len(args) # 5 THEN Raise(MISSING_ARG)
    ELSE get_updated_chunks(args[1], args[2], args[3], args[4], args[5])

call_get_appended_chunks(args) ==
    IF Len(args) # 2 THEN Raise(EXTRA_ARG)
    ELSE get_appended_chunks(args[1], args[2])

\* ------------------------------------------------------------------- sedes
\* A sedes is [type, element, length]: type "List" (length is max_length) or "Vector",
\* element "uint128" (a basic element of 16 bytes) or "bytes16" (a composite element,
\* whose leaf is its 32 byte hash tree root).
Sedes == [type : {"List", "Vector"}, element : {"uint128", "bytes16"}, length : 0 .. MAX_LENGTH]

\* sedes.serialize_element_for_tree(index, element)
serialize_element_for_tree(sedes, index, element) ==
    IF sedes.element = "uint128"
    THEN ToBytesLE(element, UINT128_SIZE)
    ELSE [k \in 1 .. BYTES16_SIZE |-> element] \o ZeroBytes(CHUNK_SIZE - BYTES16_SIZE)

\* sedes.chunk_count
chunk_count(sedes) ==
    IF sedes.element = "uint128"
    THEN (sedes.length * UINT128_SIZE + CHUNK_SIZE - 1) \div CHUNK_SIZE
    ELSE sedes.length

\* --------------------------------------------------------------- hash tree
RECURSIVE Pow2(_)
Pow2(d) == IF d = 0 THEN 1 ELSE 2 * Pow2(d - 1)

RECURSIVE CeilLog2(_)
\* the depth d of a tree with room for n leaves: the least d with 2^d >= n
CeilLog2(n) == IF n <= 1 THEN 0 ELSE 1 + CeilLog2((n + 1) \div 2)

RECURSIVE Merkleize(_, _)
\* the root over a full layer of 2^d nodes
Merkleize(layer, d) ==
    IF d = 0 THEN layer[1]
    ELSE Merkleize([k \in 1 .. Len(layer) \div 2 |-> H(layer[2 * k - 1], layer[2 * k])], d - 1)

\* the root of the padded tree of depth d over chunks, computed from scratch
MerkleRoot(chunks, d) ==
    Merkleize(chunks \o [k \in 1 .. Pow2(d) - Len(chunks) |-> ZERO_BYTES32], d)

\* A HashTree is [chunks, depth, root].
MakeHashTree(chunks, d) == [chunks |-> chunks, depth |-> d, root |-> MerkleRoot(chunks, d)]

\* HashTree.compute(chunks, chunk_count)
HashTree_compute(chunks, count) ==
    LET d == CeilLog2(Max(count, 1))
    IN  IF Len(chunks) > Pow2(d) THEN Raise(VALUE_ERROR) ELSE Ok(MakeHashTree(chunks, d))

RECURSIVE MsetChunks(_, _)
MsetChunks(chunks, items) ==
    IF items = <<>> THEN chunks
    ELSE MsetChunks([chunks EXCEPT ![Head(items)[1] + 1] = Head(items)[2]], Tail(items))

\* hash_tree.mset(*itertools.chain.from_iterable(items))
HashTree_mset(tree, items) ==
    IF \E k \in 1 .. Len(items) : ~(items[k][1] + 1 \in 1 .. Len(tree.chunks))
    THEN Raise(INDEX_ERROR)
    ELSE Ok(MakeHashTree(MsetChunks(tree.chunks, items), tree.depth))

\* hash_tree.extend(chunks)
HashTree_extend(tree, chunks) ==
    IF Len(tree.chunks) + Len(chunks) > Pow2(tree.depth)
    THEN Raise(VALUE_ERROR)
    ELSE Ok(MakeHashTree(tree.chunks \o chunks, tree.depth))

\* ssz.utils.mix_in_length(root, length)
mix_in_length(root, length) == H(root, ToBytesLE(length, CHUNK_SIZE))

\* ----------------------------------------------------------------- pvector
\* pyrsistent's pvector: v[index], with python's negative indices
pvector_getitem(v, index) ==
    LET i == IF index < 0 THEN index + Len(v) ELSE index
    IN  IF 0 <= i /\ i < Len(v) THEN Ok(v[i + 1]) ELSE Raise(INDEX_ERROR)

RECURSIVE pvector_mset(_, _)
\* v.mset(*itertools.chain.from_iterable(items)), for indices 0 <= index < len(v)
pvector_mset(v, items) ==
    IF items = <<>> THEN v
    ELSE pvector_mset([v EXCEPT ![Head(items)[1] + 1] = Head(items)[2]], Tail(items))

\* v.extend(values)
pvector_extend(v, values) == v \o values

\* ------------------------------------------------------------------- state
VARIABLES
    structures,  \* the structures constructed so far: structures[s] is [cls, elements, hash_tree, sedes]
    evolvers,    \* the evolvers: evolvers[e] is [original, updated_elements, appended_elements]
    written,     \* history: written[e][i] is [value, again]: the last value a set of evolver e
                 \* stored at index i, and whether an earlier set had stored one there
    pushed,      \* history: pushed[e] is the sequence of values appended to evolver e
    result       \* the last call: [op, args, out], out its outcome

vars == <<structures, evolvers, written, pushed, result>>

\* the handles a caller holds evolvers by; 0 is the local variable `evolver` of
\* mset, append and extend
EvolverIds == 1 .. NumEvolvers
LOCAL_EVOLVER == 0
NoEvolver == [original |-> 0, updated_elements |-> <<>>, appended_elements |-> <<>>]

\* The objects a call can reach: a method is a function from the world and its
\* arguments to the world after the call and the call's outcome.
World == [structures |-> structures, evolvers |-> evolvers]
Ret(w, out) == [w |-> w, out |-> out]

\* BaseHashableStructure.__init__(elements, hash_tree, sedes), for class cls
NewStructure(cls, elements, hash_tree, sedes) ==
    [cls |-> cls, elements |-> elements, hash_tree |-> hash_tree, sedes |-> sedes]

\* cls(elements, hash_tree, sedes): a new object, the ones that exist are kept
Construct(w, structure) ==
    Ret([w EXCEPT !.structures = Append(@, structure)], Ok(Len(w.structures) + 1))

\* structure.chunks
chunks(structure) == structure.hash_tree.chunks
\* structure.raw_root
raw_root(structure) == structure.hash_tree.root
\* a list root without the length mixed in
HashableList_root_NoLength(structure) == raw_root(structure)

\* HashableList.root
HashableList_root(structure) == mix_in_length(raw_root(structure), Len(structure.elements))
\* HashableVector.root
HashableVector_root(structure) == raw_root(structure)
\* structure.root
root(structure) ==
    IF structure.cls = "HashableList" THEN HashableList_root(structure)
    ELSE HashableVector_root(structure)

\* the serialized elements of from_iterable
SerializedElements(elements, sedes) ==
    [k \in 1 .. Len(elements) |-> serialize_element_for_tree(sedes, k - 1, elements[k])]

\* BaseHashableStructure.from_iterable(iterable, sedes)
from_iterable(w, cls, iterable, sedes) ==
    LET elements == iterable
        serialized_elements == SerializedElements(elements, sedes)
        appended_chunks == call_get_appended_chunks(<<serialized_elements, 0, 0>>)
    IN  IF ~IsOk(appended_chunks) THEN Ret(w, appended_chunks)
        ELSE LET hash_tree == HashTree_compute(
                     IF appended_chunks.value = <<>> THEN <<ZERO_BYTES32>>
                     ELSE appended_chunks.value, chunk_count(sedes))
             IN  IF ~IsOk(hash_tree) THEN Ret(w, hash_tree)
                 ELSE Construct(w, NewStructure(cls, elements, hash_tree.value, sedes))

\* from_iterable_and_sedes(iterable, sedes, max_length)
from_iterable_and_sedes(w, cls, iterable, sedes, max_length) ==
    LET elements == iterable
        serialized_elements == SerializedElements(elements, sedes)
        appended_chunks == call_get_appended_chunks(<<serialized_elements, 0>>)
    IN  IF ~IsOk(appended_chunks) THEN Ret(w, appended_chunks)
        ELSE LET hash_tree == HashTree_compute(
                     IF appended_chunks.value = <<>> THEN <<ZERO_BYTES32>>
                     ELSE appended_chunks.value, chunk_count(sedes))
             IN  IF ~IsOk(hash_tree) THEN Ret(w, hash_tree)
                 ELSE Construct(w, NewStructure(cls, elements, hash_tree.value, sedes))

\* HashableList.from_iterable(iterable, sedes)
HashableList_from_iterable(w, iterable, sedes) ==
    from_iterable_and_sedes(w, "HashableList", iterable, sedes, sedes.length)

\* a vector built without the length check
HashableVector_from_iterable_NoCheck(w, iterable, sedes) ==
    from_iterable_and_sedes(w, "HashableVector", iterable, sedes, 0)

\* HashableVector.from_iterable(iterable, sedes)
HashableVector_from_iterable(w, iterable, sedes) ==
    LET elements == iterable
    IN  IF Len(elements) # sedes.length THEN Ret(w, Raise(VALUE_ERROR))
        ELSE from_iterable_and_sedes(w, "HashableVector", elements, sedes, 0)

\* structure.__len__()
structure_len(w, s) == Len(w.structures[s].elements)
\* structure.__getitem__(index)
structure_getitem(w, s, index) == pvector_getitem(w.structures[s].elements, index)

\* ----------------------------------------------------------------- evolver
\* structure.evolver(): HashableStructureEvolver.__init__, the new evolver held as e
evolver(w, e, s) ==
    Ret([w EXCEPT !.evolvers[e] =
            [original |-> s, updated_elements |-> <<>>, appended_elements |-> <<>>]],
        Ok(e))

\* the class of the evolver: ResizableHashableStructureEvolver for a list
is_resizable(w, e) == w.structures[w.evolvers[e].original].cls = "HashableList"

\* a length that counts the appended elements as well
evolver_len_WithAppended(w, e) ==
    structure_len(w, w.evolvers[e].original) + Len(w.evolvers[e].appended_elements)

\* HashableStructureEvolver.__len__()
evolver_len(w, e) == structure_len(w, w.evolvers[e].original)

\* a read that also looks into the appended elements
evolver_getitem_ReadsAppended(w, e, index) ==
    LET n == structure_len(w, w.evolvers[e].original)
    IN  IF DictHas(w.evolvers[e].updated_elements, index)
        THEN Ret(w, Ok(DictGet(w.evolvers[e].updated_elements, index)))
        ELSE IF n <= index /\ index < n + Len(w.evolvers[e].appended_elements)
        THEN Ret(w, Ok(w.evolvers[e].appended_elements[index - n + 1]))
        ELSE Ret(w, structure_getitem(w, w.evolvers[e].original, index))

\* HashableStructureEvolver.__getitem__(index)
evolver_getitem(w, e, index) ==
    IF DictHas(w.evolvers[e].updated_elements, index)
    THEN Ret(w, Ok(DictGet(w.evolvers[e].updated_elements, index)))
    ELSE Ret(w, structure_getitem(w, w.evolvers[e].original, index))

\* a set that writes into the elements of the original structure
evolver_setitem_InPlace(w, e, index, element) ==
    IF 0 <= index /\ index < evolver_len(w, e)
    THEN Ret([w EXCEPT !.structures[w.evolvers[e].original].elements[index + 1] = element,
                       !.evolvers[e].updated_elements = DictSet(@, index, element)], Ok(<<>>))
    ELSE Ret(w, Raise(INDEX_ERROR))

\* a set that takes a negative index as counting from the end
evolver_setitem_Negative(w, e, index, element) ==
    LET n == evolver_len(w, e)
        at == IF index < 0 THEN index + n ELSE index
    IN  IF 0 <= at /\ at < n
        THEN Ret([w EXCEPT !.evolvers[e].updated_elements = DictSet(@, at, element)], Ok(<<>>))
        ELSE Ret(w, Raise(INDEX_ERROR))

\* HashableStructureEvolver.__setitem__(index, element)
evolver_setitem(w, e, index, element) ==
    IF 0 <= index /\ index < evolver_len(w, e)
    THEN Ret([w EXCEPT !.evolvers[e].updated_elements = DictSet(@, index, element)], Ok(<<>>))
    ELSE Ret(w, Raise(INDEX_ERROR))

\* HashableStructureEvolver.set(index, element)
evolver_set(w, e, index, element) == evolver_setitem(w, e, index, element)

\* an append to a list that all evolvers share
evolver_append_Shared(w, e, element) ==
    IF ~is_resizable(w, e) THEN Ret(w, Raise(ATTRIBUTE_ERROR))
    ELSE Ret([w EXCEPT !.evolvers =
                 [x \in DOMAIN @ |->
                     IF @[x] = NoEvolver THEN @[x]
                     ELSE [@[x] EXCEPT !.appended_elements = Append(@, element)]]],
             Ok(<<>>))

\* ResizableHashableStructureEvolver.append(element)
evolver_append(w, e, element) ==
    IF ~is_resizable(w, e) THEN Ret(w, Raise(ATTRIBUTE_ERROR))
    ELSE Ret([w EXCEPT !.evolvers[e].appended_elements = Append(@, element)], Ok(<<>>))

\* ResizableHashableStructureEvolver.extend(elements)
evolver_extend(w, e, elements) ==
    IF ~is_resizable(w, e) THEN Ret(w, Raise(ATTRIBUTE_ERROR))
    ELSE Ret([w EXCEPT !.evolvers[e].appended_elements = @ \o elements], Ok(<<>>))

\* a dirty test that looks at the updated elements only
is_dirty_UpdatesOnly(w, e) == w.evolvers[e].updated_elements # <<>>

\* HashableStructureEvolver.is_dirty()
is_dirty(w, e) ==
    w.evolvers[e].updated_elements # <<>> \/ w.evolvers[e].appended_elements # <<>>

\* a persistent() that forgets the recorded edits once it has used them
persistent_Resets(w, e) ==
    IF ~is_dirty(w, e) THEN Ret(w, Ok(w.evolvers[e].original))
    ELSE Ret([w EXCEPT !.evolvers[e].updated_elements = <<>>,
                       !.evolvers[e].appended_elements = <<>>],
             Raise(MISSING_ARG))

\* HashableStructureEvolver.persistent()
persistent(w, e) ==
    LET ev == w.evolvers[e]
        original_structure == w.structures[ev.original]
    IN  IF ~is_dirty(w, e) THEN Ret(w, Ok(ev.original))
        ELSE LET updated_elements ==
                     [k \in 1 .. Len(ev.updated_elements) |->
                         <<ev.updated_elements[k][1],
                           serialize_element_for_tree(original_structure.sedes,
                               ev.updated_elements[k][1], ev.updated_elements[k][2])>>]
                 appended_elements ==
                     [k \in 1 .. Len(ev.appended_elements) |->
                         serialize_element_for_tree(original_structure.sedes,
                             Len(original_structure.elements) + k - 1, ev.appended_elements[k])]
                 updated_chunks ==
                     call_get_updated_chunks(<<updated_elements, appended_elements,
                         original_structure.hash_tree.chunks, Len(original_structure.elements)>>)
                 appended_chunks ==
                     call_get_appended_chunks(<<appended_elements,
                         Len(original_structure.hash_tree.chunks),
                         Len(original_structure.elements)>>)
             IN  IF ~IsOk(updated_chunks) THEN Ret(w, updated_chunks)
                 ELSE IF ~IsOk(appended_chunks) THEN Ret(w, appended_chunks)
                 ELSE LET elements ==
                              pvector_extend(
                                  pvector_mset(original_structure.elements, ev.updated_elements),
                                  ev.appended_elements)
                          mset_tree == HashTree_mset(original_structure.hash_tree,
                                                     updated_chunks.value)
                      IN  IF ~IsOk(mset_tree) THEN Ret(w, mset_tree)
                          ELSE LET hash_tree == HashTree_extend(mset_tree.value,
                                                                appended_chunks.value)
                               IN  IF ~IsOk(hash_tree) THEN Ret(w, hash_tree)
                                   ELSE Construct(w, NewStructure(original_structure.cls,
                                            elements, hash_tree.value, original_structure.sedes))

\* ------------------------------------------------- structure: derivations
\* the local variable `evolver` goes out of scope when the method returns
Return(r) == Ret([r.w EXCEPT !.evolvers[LOCAL_EVOLVER] = NoEvolver], r.out)

RECURSIVE MsetLoop(_, _)
\* for index, value in partition(2, args): evolver[index] = value
MsetLoop(w, args) ==
    IF args = <<>> THEN Ret(w, Ok(<<>>))
    ELSE LET r == evolver_setitem(w, LOCAL_EVOLVER, args[1], args[2])
         IN  IF ~IsOk(r.out) THEN r ELSE MsetLoop(r.w, Drop(args, 2))

\* BaseHashableStructure.mset(*args)
mset(w, s, args) ==
    IF Len(args) % 2 # 0 THEN Ret(w, Raise(ODD_ARGS))
    ELSE LET r == MsetLoop(evolver(w, LOCAL_EVOLVER, s).w, args)
         IN  IF ~IsOk(r.out) THEN Return(r) ELSE Return(persistent(r.w, LOCAL_EVOLVER))

\* BaseHashableStructure.set(index, value)
set(w, s, index, value) == mset(w, s, <<index, value>>)

\* BaseResizableHashableStructure.append(value)
append(w, s, value) ==
    LET r == evolver_append(evolver(w, LOCAL_EVOLVER, s).w, LOCAL_EVOLVER, value)
    IN  IF ~IsOk(r.out) THEN Return(r) ELSE Return(persistent(r.w, LOCAL_EVOLVER))

\* BaseResizableHashableStructure.extend(values)
extend(w, s, values) ==
    LET r == evolver_extend(evolver(w, LOCAL_EVOLVER, s).w, LOCAL_EVOLVER, values)
    IN  IF ~IsOk(r.out) THEN Return(r) ELSE Return(persistent(r.w, LOCAL_EVOLVER))

\* BaseResizableHashableStructure.__add__(values)
add(w, s, values) == extend(w, s, values)

RECURSIVE mul(_, _, _)
\* BaseResizableHashableStructure.__mul__(times)
mul(w, s, times) ==
    IF times <= 0 THEN Ret(w, Raise(VALUE_ERROR))
    ELSE IF times = 1 THEN Ret(w, Ok(s))
    ELSE LET r == add(w, s, w.structures[s].elements)
         IN  IF ~IsOk(r.out) THEN r ELSE mul(r.w, r.out.value, times - 1)

\* ------------------------------------------------------------------ inputs
RECURSIVE SeqsUpTo(_, _)
\* the sequences over S of length at most n
SeqsUpTo(S, n) ==
    IF n = 0 THEN {<<>>}
    ELSE LET shorter == SeqsUpTo(S, n - 1)
         IN  shorter \cup {Append(q, x) : q \in {t \in shorter : Len(t) = n - 1}, x \in S}

Iterables == SeqsUpTo(Values, MaxLen)
\* negative, in range, in the appended range, beyond it
Indices == -1 .. MaxLen + MaxAppended
\* a list has max_length MaxLen or MAX_LENGTH, a vector a length of 0 .. MaxLen or MAX_LENGTH
SedesOf(type) ==
    [type : {type}, element : {"uint128", "bytes16"},
     length : IF type = "Vector" THEN 0 .. MaxLen \cup {MAX_LENGTH} ELSE {MaxLen, MAX_LENGTH}]
\* the arguments of mset: up to two pairs, or an odd number of arguments
MsetArgs ==
    {<<>>} \cup {<<i, v>> : i \in Indices, v \in Values}
           \cup {<<i, v, j, u>> : i \in 0 .. 1, v \in Values, j \in -1 .. 1, u \in Values}
           \cup {<<i>> : i \in 0 .. 1} \cup {<<0, v, i>> : v \in Values, i \in 0 .. 1}

Structures == 1 .. Len(structures)
Lists == {s \in Structures : structures[s].cls = "HashableList"}
Live(E) == {e \in E : evolvers[e] # NoEvolver}

\* ----------------------------------------------------------------- actions
Init ==
    /\ structures = <<>>
    /\ evolvers = [e \in {LOCAL_EVOLVER} \cup EvolverIds |-> NoEvolver]
    /\ written = [e \in EvolverIds |-> <<>>]
    /\ pushed = [e \in EvolverIds |-> <<>>]
    /\ result = [op |-> "init", args |-> <<>>, out |-> Ok(<<>>)]

\* the call r returned: its world and its outcome become the state
Returned(op, args, r) ==
    /\ structures' = r.w.structures
    /\ evolvers' = r.w.evolvers
    /\ result' = [op |-> op, args |-> args, out |-> r.out]

\* BaseHashableStructure.from_iterable(iterable, sedes)
FromIterable(iterable, sedes) ==
    /\ structures = <<>>
    /\ Returned("from_iterable", <<iterable, sedes>>,
                from_iterable(World, "BaseHashableStructure", iterable, sedes))
    /\ UNCHANGED <<written, pushed>>

\* HashableList.from_iterable(iterable, sedes)
ListFromIterable(iterable, sedes) ==
    /\ structures = <<>>
    /\ Returned("HashableList.from_iterable", <<iterable, sedes>>,
                HashableList_from_iterable(World, iterable, sedes))
    /\ UNCHANGED <<written, pushed>>

\* HashableVector.from_iterable(iterable, sedes)
VectorFromIterable(iterable, sedes) ==
    /\ structures = <<>>
    /\ Returned("HashableVector.from_iterable", <<iterable, sedes>>,
                HashableVector_from_iterable(World, iterable, sedes))
    /\ UNCHANGED <<written, pushed>>

\* structure[index]
GetItem(s, index) ==
    /\ Returned("getitem", <<s, index>>, Ret(World, structure_getitem(World, s, index)))
    /\ UNCHANGED <<written, pushed>>

\* e = structure.evolver()
NewEvolver(e, s) ==
    /\ evolvers[e] = NoEvolver
    /\ Returned("evolver", <<e, s>>, evolver(World, e, s))
    /\ UNCHANGED <<written, pushed>>

\* e[index]
EvolverGet(e, index) ==
    /\ Returned("evolver.get", <<e, index>>, evolver_getitem(World, e, index))
    /\ UNCHANGED <<written, pushed>>

\* e.set(index, element)
EvolverSet(e, index, element) ==
    LET r == evolver_set(World, e, index, element)
    IN  /\ Returned("evolver.set", <<e, index, element>>, r)
        /\ written' = IF IsOk(r.out)
                      THEN [written EXCEPT ![e] =
                               [k \in DOMAIN @ \cup {index} |->
                                   IF k = index
                                   THEN [value |-> element, again |-> index \in DOMAIN @]
                                   ELSE @[k]]]
                      ELSE written
        /\ UNCHANGED pushed

\* e.append(element)
EvolverAppend(e, element) ==
    /\ Len(evolvers[e].appended_elements) < MaxAppended
    /\ LET r == evolver_append(World, e, element)
       IN  /\ Returned("evolver.append", <<e, element>>, r)
           /\ pushed' = IF IsOk(r.out) THEN [pushed EXCEPT ![e] = Append(@, element)] ELSE pushed
           /\ UNCHANGED written

\* e.extend(elements)
EvolverExtend(e, elements) ==
    /\ Len(evolvers[e].appended_elements) + Len(elements) <= MaxAppended
    /\ LET r == evolver_extend(World, e, elements)
       IN  /\ Returned("evolver.extend", <<e, elements>>, r)
           /\ pushed' = IF IsOk(r.out) THEN [pushed EXCEPT ![e] = @ \o elements] ELSE pushed
           /\ UNCHANGED written

\* e.persistent()
EvolverPersistent(e) ==
    /\ Returned("evolver.persistent", <<e>>, persistent(World, e))
    /\ UNCHANGED <<written, pushed>>

\* structure.mset(*args)
Mset(s, args) ==
    /\ Returned("mset", <<s, args>>, mset(World, s, args))
    /\ UNCHANGED <<written, pushed>>

\* structure.set(index, value)
Set(s, index, value) ==
    /\ Returned("set", <<s, index, value>>, set(World, s, index, value))
    /\ UNCHANGED <<written, pushed>>

\* structure.append(value)
AppendValue(s, value) ==
    /\ Returned("append", <<s, value>>, append(World, s, value))
    /\ UNCHANGED <<written, pushed>>

\* structure.extend(values)
Extend(s, values) ==
    /\ Returned("extend", <<s, values>>, extend(World, s, values))
    /\ UNCHANGED <<written, pushed>>

\* structure + values
Add(s, values) ==
    /\ Returned("add", <<s, values>>, add(World, s, values))
    /\ UNCHANGED <<written, pushed>>

\* structure * times
Mul(s, times) ==
    /\ Returned("mul", <<s, times>>, mul(World, s, times))
    /\ UNCHANGED <<written, pushed>>

\* ---------------------------------------------------------- specifications
\* One evolver of a structure made by from_iterable: edits, reads and persistent().
Next ==
    \/ \E it \in Iterables, sd \in SedesOf("List") \cup SedesOf("Vector") : FromIterable(it, sd)
    \/ \E it \in Iterables, sd \in SedesOf("List") : ListFromIterable(it, sd)
    \/ \E it \in Iterables, sd \in SedesOf("Vector") : VectorFromIterable(it, sd)
    \/ \E s \in Structures : NewEvolver(1, s)
    \/ \E e \in Live({1}), i \in Indices : EvolverGet(e, i)
    \/ \E e \in Live({1}), i \in Indices, v \in Values : EvolverSet(e, i, v)
    \/ \E e \in Live({1}), v \in Values : EvolverAppend(e, v)
    \/ \E e \in Live({1}), vs \in SeqsUpTo(Values, MaxAppended) : EvolverExtend(e, vs)
    \/ \E e \in Live({1}) : EvolverPersistent(e)

Spec == Init /\ [][Next]_vars

\* The operations of a structure made by from_iterable.
NextOps ==
    \/ \E it \in Iterables, sd \in SedesOf("List") \cup SedesOf("Vector") : FromIterable(it, sd)
    \/ \E it \in Iterables, sd \in SedesOf("List") : ListFromIterable(it, sd)
    \/ \E it \in Iterables, sd \in SedesOf("Vector") : VectorFromIterable(it, sd)
    \/ \E s \in Structures, i \in Indices : GetItem(s, i)
    \/ \E s \in Structures, args \in MsetArgs : Mset(s, args)
    \/ \E s \in Structures, i \in Indices, v \in Values : Set(s, i, v)
    \/ \E s \in Lists, v \in Values : AppendValue(s, v)
    \/ \E s \in Lists, vs \in SeqsUpTo(Values, MaxAppended) : Extend(s, vs)
    \/ \E s \in Lists, vs \in SeqsUpTo(Values, MaxAppended) : Add(s, vs)
    \/ \E s \in Lists, n \in 0 .. 3 : Mul(s, n)

SpecOps == Init /\ [][NextOps]_vars

\* Several evolvers of one list, their edits and persistent() calls interleaved.
NextEvolvers ==
    \/ \E it \in SeqsUpTo(Values, 1) :
          ListFromIterable(it, [type |-> "List", element |-> "uint128", length |-> MAX_LENGTH])
    \/ \E e \in EvolverIds, s \in Structures : NewEvolver(e, s)
    \/ \E e \in Live(EvolverIds), v \in Values : EvolverSet(e, 0, v)
    \/ \E e \in Live(EvolverIds), v \in Values : EvolverAppend(e, v)
    \/ \E e \in Live(EvolverIds) : EvolverPersistent(e)

SpecEvolvers == Init /\ [][NextEvolvers]_vars

\* ------------------------------------------- the chunk helpers on their own
\* the sizes of serialized elements: uint64, uint128, and a 32-byte leaf
ElementSizes == {8, 16, 32}
\* no size, a size that does not divide the chunk size, a size above the chunk size
BadElementSizes == {0, 12, 64}
\* the serialized elements of a size
ElementsOfSize(size) == {[k \in 1 .. size |-> 255 - v] : v \in Values}
\* a chunk whose 32 bytes are pairwise different
RAMP_BYTES32 == [k \in 1 .. CHUNK_SIZE |-> k]

\* the chunks from_iterable packs serialized elements into
ChunksOf(serialized_elements) ==
    LET appended_chunks == get_appended_chunks(serialized_elements, 0).value
    IN  IF appended_chunks = <<>> THEN <<ZERO_BYTES32>> ELSE appended_chunks

\* the dicts {index: element} over the indices 0 .. n - 1, in every insertion order
UpdateDicts(n, size) ==
    {d \in SeqsUpTo((0 .. n - 1) \X ElementsOfSize(size), n) :
        \A j, k \in 1 .. Len(d) : d[j][1] = d[k][1] => j = k}

\* update_element_in_chunk(original_chunk, index, element)
UpdateElementInChunk(original_chunk, index, element) ==
    /\ Returned("update_element_in_chunk", <<original_chunk, index, element>>,
                Ret(World, update_element_in_chunk(original_chunk, index, element)))
    /\ UNCHANGED <<written, pushed>>

\* get_updated_chunks(updated_elements, appended_elements, original_chunks,
\*                    num_original_elements, num_padding_elements)
\* on the chunks of original_elements
GetUpdatedChunks(original_elements, updated_elements, appended_elements, num_padding_elements) ==
    /\ Returned("get_updated_chunks",
                <<updated_elements, appended_elements, ChunksOf(original_elements),
                  Len(original_elements), num_padding_elements>>,
                Ret(World, get_updated_chunks(updated_elements, appended_elements,
                               ChunksOf(original_elements), Len(original_elements),
                               num_padding_elements)))
    /\ UNCHANGED <<written, pushed>>

\* get_appended_chunks(appended_elements, num_padding_elements)
GetAppendedChunks(appended_elements, num_padding_elements) ==
    /\ Returned("get_appended_chunks", <<appended_elements, num_padding_elements>>,
                Ret(World, get_appended_chunks(appended_elements, num_padding_elements)))
    /\ UNCHANGED <<written, pushed>>

\* One call of a chunk helper, on elements of one size and with a padding count
\* up to the free slots of the original chunks.
NextChunks ==
    \/ /\ result.op = "init"
       /\ \E original_chunk \in {ZERO_BYTES32, RAMP_BYTES32},
              index \in -1 .. 4,
              size \in ElementSizes \cup BadElementSizes :
              \E element \in ElementsOfSize(size) :
                  UpdateElementInChunk(original_chunk, index, element)
    \/ /\ result.op = "init"
       /\ \E size \in ElementSizes :
              \E original_elements \in SeqsUpTo(ElementsOfSize(size), MaxLen) :
                  \E updated_elements \in UpdateDicts(Len(original_elements), size),
                     appended_elements \in SeqsUpTo(ElementsOfSize(size), MaxAppended + 1),
                     num_padding_elements \in
                         0 .. get_num_padding_elements(Len(ChunksOf(original_elements)),
                                                       Len(original_elements), size) :
                      GetUpdatedChunks(original_elements, updated_elements,
                                       appended_elements, num_padding_elements)
    \/ /\ result.op = "init"
       /\ \E size \in ElementSizes :
              \E appended_elements \in SeqsUpTo(ElementsOfSize(size), MaxAppended + 1),
                 num_padding_elements \in 0 .. MaxAppended + 2 :
                  GetAppendedChunks(appended_elements, num_padding_elements)

SpecChunks == Init /\ [][NextChunks]_vars

\* -------------------------------------------------------- the sedes decoders
\* the exceptions of the decoders
DESERIALIZATION_ERROR == "DeserializationError"
INVARIANT_END_INDEX == "Exception: Invariant: End index cannot exceed size of data"
INVARIANT_PROGRESS == "Exception: Invariant: must always make progress"
INVARIANT_CONSUMED == "Exception: Invariant: must not consume more data than available"

RECURSIVE FromBytesLE(_)
\* int.from_bytes(bytes, "little")
FromBytesLE(bytes) == IF bytes = <<>> THEN 0 ELSE Head(bytes) + 256 * FromBytesLE(Tail(bytes))

\* A sedes of the decoders: a BasicSedes of a length, a Tuple of a number of elements
\* of one sedes, or a composite sedes of variable length whose content is any bytes.
BasicOf(length) == [kind |-> "basic", length |-> length]
VARIABLE_BYTES == [kind |-> "bytes"]
TupleOf(number_of_elements, element_sedes) ==
    [kind |-> "tuple", number_of_elements |-> number_of_elements,
     element_sedes |-> element_sedes]

RECURSIVE is_variable_length(_)
\* sedes.is_variable_length
is_variable_length(sedes) ==
    CASE sedes.kind = "basic" -> FALSE
      [] sedes.kind = "bytes" -> TRUE
      [] sedes.kind = "tuple" ->
            sedes.number_of_elements > 0 /\ is_variable_length(sedes.element_sedes)

RECURSIVE get_fixed_length(_)
\* sedes.get_fixed_length()
get_fixed_length(sedes) ==
    CASE sedes.kind = "basic" -> Ok(sedes.length)
      [] sedes.kind = "bytes" -> Raise(VALUE_ERROR)
      [] sedes.kind = "tuple" ->
            IF is_variable_length(sedes) THEN Raise(VALUE_ERROR)
            ELSE get_fixed_length(sedes.element_sedes)

\* a consume_bytes that does not compare the end of the read with the data
consume_bytes_Unchecked(data, start_index, num_bytes) ==
    IF start_index < 0 THEN Raise(VALUE_ERROR)
    ELSE IF num_bytes < 0 THEN Raise(VALUE_ERROR)
    ELSE Ok(<<SubSeq(data, start_index + 1, Min(start_index + num_bytes, Len(data))),
              start_index + num_bytes>>)

\* BaseSedes.consume_bytes(data, start_index, num_bytes): (bytes, continuation_index)
consume_bytes(data, start_index, num_bytes) ==
    IF start_index < 0 THEN Raise(VALUE_ERROR)
    ELSE IF num_bytes < 0 THEN Raise(VALUE_ERROR)
    ELSE IF start_index + num_bytes > Len(data) THEN Raise(DESERIALIZATION_ERROR)
    ELSE LET continuation_index == start_index + num_bytes
         IN  Ok(<<SubSeq(data, start_index + 1, start_index + num_bytes), continuation_index>>)

RECURSIVE deserialize_segment(_, _, _)
RECURSIVE deserialize_content(_, _)
RECURSIVE TupleLoop(_, _, _, _, _)

\* the loop of Tuple.deserialize_content and the checks after it
TupleLoop(sedes, content, element_index, element_start_index, elements) ==
    IF element_index = sedes.number_of_elements
    THEN IF element_start_index > Len(content) THEN Raise(INVARIANT_CONSUMED)
         ELSE IF element_start_index < Len(content) THEN Raise(DESERIALIZATION_ERROR)
         ELSE Ok(elements)
    ELSE LET segment == deserialize_segment(sedes.element_sedes, content, element_start_index)
         IN  IF ~IsOk(segment) THEN segment
             ELSE LET next_element_start_index == segment.value[2]
                  IN  IF next_element_start_index <= element_start_index
                      THEN Raise(INVARIANT_PROGRESS)
                      ELSE TupleLoop(sedes, content, element_index + 1,
                                     next_element_start_index,
                                     Append(elements, segment.value[1]))

\* sedes.deserialize_content(content): the bytes themselves for a sedes without
\* elements, Tuple.deserialize_content for a tuple
deserialize_content(sedes, content) ==
    IF sedes.kind = "tuple" THEN TupleLoop(sedes, content, 0, 0, <<>>)
    ELSE Ok(content)

\* BasicSedes.deserialize_segment and CompositeSedes.deserialize_segment:
\* (value, continuation_index)
deserialize_segment(sedes, data, start_index) ==
    IF sedes.kind = "basic"
    THEN LET consumed == consume_bytes(data, start_index, sedes.length)
         IN  IF ~IsOk(consumed) THEN consumed
             ELSE LET value == deserialize_content(sedes, consumed.value[1])
                  IN  IF ~IsOk(value) THEN value
                      ELSE Ok(<<value.value, consumed.value[2]>>)
    ELSE IF ~is_variable_length(sedes)
    THEN LET content_size == get_fixed_length(sedes)
         IN  IF ~IsOk(content_size) THEN content_size
             ELSE LET consumed == consume_bytes(data, start_index, content_size.value)
                  IN  IF ~IsOk(consumed) THEN consumed
                      ELSE LET value == deserialize_content(sedes, consumed.value[1])
                           IN  IF ~IsOk(value) THEN value
                               ELSE Ok(<<value.value, consumed.value[2]>>)
    ELSE LET prefix == consume_bytes(data, start_index, LENGTH_PREFIX_SIZE)
         IN  IF ~IsOk(prefix) THEN prefix
             ELSE LET length == FromBytesLE(prefix.value[1])
                      consumed == consume_bytes(data, prefix.value[2], length)
                  IN  IF ~IsOk(consumed) THEN consumed
                      ELSE LET value == deserialize_content(sedes, consumed.value[1])
                           IN  IF ~IsOk(value) THEN value
                               ELSE Ok(<<value.value, consumed.value[2]>>)

\* BaseSedes.deserialize(data)
deserialize(sedes, data) ==
    LET segment == deserialize_segment(sedes, data, 0)
    IN  IF ~IsOk(segment) THEN segment
        ELSE LET num_leftover_bytes == Len(data) - segment.value[2]
             IN  IF num_leftover_bytes > 0 THEN Raise(DESERIALIZATION_ERROR)
                 ELSE IF num_leftover_bytes < 0 THEN Raise(INVARIANT_END_INDEX)
                 ELSE Ok(segment.value[1])

\* the sedes without elements
LeafSedes == {BasicOf(1), BasicOf(2), VARIABLE_BYTES}
RECURSIVE SedesUpTo(_)
\* the sedes nested at most depth deep; a tuple has up to MaxLen elements
SedesUpTo(depth) ==
    IF depth = 0 THEN LeafSedes
    ELSE SedesUpTo(depth - 1)
         \cup {TupleOf(n, s) : n \in 0 .. MaxLen, s \in SedesUpTo(depth - 1)}
DecoderSedes == SedesUpTo(MaxDepth)
TupleSedes == {s \in DecoderSedes : s.kind = "tuple"}

\* the pieces byte strings are made of: length prefixes and single bytes
Pieces ==
    {ToBytesLE(n, LENGTH_PREFIX_SIZE) : n \in {0, 1, LENGTH_PREFIX_SIZE, LENGTH_PREFIX_SIZE + 1,
                                               2 * LENGTH_PREFIX_SIZE}}
    \cup {<<v>> : v \in Values}
\* the byte strings of up to MaxPieces pieces
ByteStrings == {Concat(q) : q \in SeqsUpTo(Pieces, MaxPieces)}

\* sedes.deserialize(data)
Deserialize(sedes, data) ==
    /\ Returned("deserialize", <<sedes, data>>, Ret(World, deserialize(sedes, data)))
    /\ UNCHANGED <<written, pushed>>

\* sedes.deserialize_segment(data, start_index)
DeserializeSegment(sedes, data, start_index) ==
    /\ Returned("deserialize_segment", <<sedes, data, start_index>>,
                Ret(World, deserialize_segment(sedes, data, start_index)))
    /\ UNCHANGED <<written, pushed>>

\* tuple_sedes.deserialize_content(content)
DeserializeContent(sedes, content) ==
    /\ Returned("deserialize_content", <<sedes, content>>,
                Ret(World, deserialize_content(sedes, content)))
    /\ UNCHANGED <<written, pushed>>

\* BaseSedes.consume_bytes(data, start_index, num_bytes)
ConsumeBytes(data, start_index, num_bytes) ==
    /\ Returned("consume_bytes", <<data, start_index, num_bytes>>,
                Ret(World, consume_bytes(data, start_index, num_bytes)))
    /\ UNCHANGED <<written, pushed>>

\* One call of a decoder on a byte string.
NextDecode ==
    \/ /\ result.op = "init"
       /\ \E sedes \in DecoderSedes, data \in ByteStrings : Deserialize(sedes, data)
    \/ /\ result.op = "init"
       /\ \E sedes \in DecoderSedes, data \in ByteStrings, start_index \in 0 .. 1 :
              DeserializeSegment(sedes, data, start_index)
    \/ /\ result.op = "init"
       /\ \E sedes \in TupleSedes, content \in ByteStrings :
              DeserializeContent(sedes, content)
    \/ /\ result.op = "init"
       /\ \E data \in ByteStrings, start_index \in 0 .. 1,
              num_bytes \in {0, 1, 2, LENGTH_PREFIX_SIZE} :
              ConsumeBytes(data, start_index, num_bytes)

SpecDecode == Init /\ [][NextDecode]_vars

\* ------------------------------------------------- what the claims refer to
\* The from-scratch packing of an element sequence: the serialized elements in
\* order, cut into chunks, the last chunk right-padded with zero bytes; no element
\* gives the single zero chunk.
PackedChunks(elements, sedes) ==
    LET bytes == Concat(SerializedElements(elements, sedes))
        n == (Len(bytes) + CHUNK_SIZE - 1) \div CHUNK_SIZE
        padded == bytes \o ZeroBytes(n * CHUNK_SIZE - Len(bytes))
    IN  IF n = 0 THEN <<ZERO_BYTES32>>
        ELSE [k \in 1 .. n |-> SubSeq(padded, (k - 1) * CHUNK_SIZE + 1, k * CHUNK_SIZE)]

\* The from-scratch Merkle root of these chunks in a tree of capacity sedes.chunk_count.
ScratchRawRoot(elements, sedes) ==
    MerkleRoot(PackedChunks(elements, sedes), CeilLog2(Max(chunk_count(sedes), 1)))

\* The from-scratch root of a structure of class cls.
ScratchRoot(cls, elements, sedes) ==
    IF cls = "HashableList"
    THEN H(ScratchRawRoot(elements, sedes), ToBytesLE(Len(elements), CHUNK_SIZE))
    ELSE ScratchRawRoot(elements, sedes)

\* the elements fit the tree of the sedes
Fits(elements, sedes) ==
    Len(PackedChunks(elements, sedes)) <= Pow2(CeilLog2(Max(chunk_count(sedes), 1)))

\* the structure evolver e was taken from
Original(e) == structures[evolvers[e].original]
\* evolver e has recorded an edit
Edited(e) == DOMAIN written[e] # {} \/ Len(pushed[e]) > 0
\* The element sequence the edits of evolver e describe: the last value set at each
\* index, else the original element, then the appended values in append order.
Expected(e) ==
    [k \in 1 .. Len(Original(e).elements) |->
        IF (k - 1) \in DOMAIN written[e] THEN written[e][k - 1].value ELSE Original(e).elements[k]]
    \o pushed[e]

\* a dict as a function from its keys
DictAsMap(d) == [key \in {d[k][1] : k \in 1 .. Len(d)} |-> DictGet(d, key)]

\* (C1) Incremental equivalence: persistent() on an evolver with recorded edits
\* returns a structure whose chunks and root are those of a from-scratch build of
\* the resulting element sequence with the same sedes.
C1_IncrementalEquivalence ==
    (/\ result.op = "evolver.persistent"
     /\ Edited(result.args[1])
     /\ Fits(Expected(result.args[1]), Original(result.args[1]).sedes))
    => /\ IsOk(result.out)
       /\ LET t == structures[result.out.value]
          IN  /\ chunks(t) = PackedChunks(Expected(result.args[1]), t.sedes)
              /\ root(t) = ScratchRoot(t.cls, Expected(result.args[1]), t.sedes)

\* (C2) from_iterable(iterable, sedes) returns a structure of the elements in order
\* whose chunks are the from-scratch packing (n_padding = 0, the zero chunk when
\* empty) and whose raw_root is the from-scratch Merkle root in a tree of capacity
\* sedes.chunk_count; a single chunk with capacity 1 is its own root.
C2_FromIterable ==
    (/\ result.op = "from_iterable"
     /\ Fits(result.args[1], result.args[2]))
    => /\ IsOk(result.out)
       /\ LET t == structures[result.out.value]
          IN  /\ t.elements = result.args[1]
              /\ chunks(t) = PackedChunks(result.args[1], result.args[2])
              /\ raw_root(t) = ScratchRawRoot(result.args[1], result.args[2])
              /\ (Len(chunks(t)) = 1 /\ chunk_count(result.args[2]) <= 1
                    => raw_root(t) = chunks(t)[1])

\* (C3) Length mixing: the root of every list that exists is H(raw_root || le256(len))
\* with raw_root taken over a tree whose capacity comes from max_length; the empty
\* uint128 list with max_length 4 has raw_root H(ZERO_CHUNK || ZERO_CHUNK).
C3_LengthMixing ==
    \A s \in Lists :
        LET t == structures[s]
        IN  /\ root(t) = H(raw_root(t), ToBytesLE(Len(t.elements), CHUNK_SIZE))
            /\ raw_root(t) = ScratchRawRoot(t.elements, t.sedes)
            /\ (t.elements = <<>> /\ t.sedes.element = "uint128" /\ t.sedes.length = MAX_LENGTH
                  => raw_root(t) = H(ZERO_BYTES32, ZERO_BYTES32))

\* a list of two uint128 with max_length 4 exists after set, mset, append or extend
\* was called on it (scenario 4 of the specification)
C3_Witness ==
    /\ result.op \in {"set", "mset", "append", "extend"}
    /\ \E s \in Lists :
          /\ Len(structures[s].elements) = 2
          /\ structures[s].sedes = [type |-> "List", element |-> "uint128", length |-> MAX_LENGTH]
          /\ raw_root(structures[s]) = H(chunks(structures[s])[1], ZERO_BYTES32)

\* (C4) Persistence: no step changes a structure that exists: its elements, chunks,
\* raw_root, root and length stay what they were, whatever derivation is called.
C4_Persistence ==
    [][\A s \in Structures :
          /\ s \in 1 .. Len(structures')
          /\ structures'[s] = structures[s]
          /\ root(structures'[s]) = root(structures[s])]_vars

\* set(index, value) was called with an index in range and a value that differs from
\* the element at that index, and the element is still there
C4_Witness ==
    /\ result.op = "set"
    /\ result.args[2] \in 0 .. Len(structures[result.args[1]].elements) - 1
    /\ structures[result.args[1]].elements[result.args[2] + 1] # result.args[3]

ClaimedGet(e, index) ==
    LET n == Len(Original(e).elements)
    IN  IF index \in DOMAIN written[e] THEN Ok(written[e][index].value)
        ELSE IF 0 <= index /\ index < n THEN Ok(Original(e).elements[index + 1])
        ELSE IF n <= index /\ index < n + Len(pushed[e]) THEN Ok(pushed[e][index - n + 1])
        ELSE Raise(INDEX_ERROR)

\* (C6, as claimed) get(index) returns the value set at index, else original[index]
\* for index < len(original), else the appended element of that position; every
\* other index fails with IndexError.
C6_GetAppended ==
    result.op = "evolver.get" => result.out = ClaimedGet(result.args[1], result.args[2])

\* (C6, amended) get(index) returns the value set at index, else original[index] for
\* -len(original) <= index < len(original), a negative index counting from the end;
\* every other index, the appended positions included, fails with IndexError.
C6_Get ==
    result.op = "evolver.get" =>
        LET e == result.args[1]
            index == result.args[2]
            n == Len(Original(e).elements)
        IN  result.out =
                IF index \in DOMAIN written[e] THEN Ok(written[e][index].value)
                ELSE IF 0 <= index /\ index < n THEN Ok(Original(e).elements[index + 1])
                ELSE IF 0 - n <= index /\ index < 0 THEN Ok(Original(e).elements[index + n + 1])
                ELSE Raise(INDEX_ERROR)

\* after an append, get(len(original)) was called and failed
C6_Witness ==
    /\ result.op = "evolver.get"
    /\ Len(pushed[result.args[1]]) > 0
    /\ result.args[2] = Len(Original(result.args[1]).elements)
    /\ result.out = Raise(INDEX_ERROR)

\* (C7) Last write wins: once an index has been set a second time on an evolver,
\* get(index) returns the value of the last set, and persistent() returns a structure
\* that holds the value of the last set at that index.
C7_LastWriteWins ==
    /\ result.op = "evolver.get"
       => \A i \in DOMAIN written[result.args[1]] :
             (i = result.args[2] /\ written[result.args[1]][i].again)
                => result.out = Ok(written[result.args[1]][i].value)
    /\ (/\ result.op = "evolver.persistent"
        /\ Fits(Expected(result.args[1]), Original(result.args[1]).sedes)
        /\ \E i \in DOMAIN written[result.args[1]] : written[result.args[1]][i].again)
       => /\ IsOk(result.out)
          /\ \A i \in DOMAIN written[result.args[1]] :
                pvector_getitem(structures[result.out.value].elements, i)
                    = Ok(written[result.args[1]][i].value)

\* (C8) The structure persistent() returns holds the original elements with the last
\* value set at each index, followed by the appended values in append order: the user
\* values, len(original) + number of appended elements of them.
C8_ElementSequence ==
    (/\ result.op = "evolver.persistent"
     /\ Edited(result.args[1])
     /\ Fits(Expected(result.args[1]), Original(result.args[1]).sedes))
    => /\ IsOk(result.out)
       /\ structures[result.out.value].elements = Expected(result.args[1])
       /\ Len(structures[result.out.value].elements)
             = Len(Original(result.args[1]).elements) + Len(pushed[result.args[1]])

\* (C10) Set idempotence: s.set(i, v) with i in range returns a structure t, and
\* t.set(i, v) returns a structure with the root and the elements of t.
C10_SetIdempotence ==
    (/\ result.op = "set"
     /\ result.args[2] \in 0 .. Len(structures[result.args[1]].elements) - 1)
    => /\ IsOk(result.out)
       /\ LET t == result.out.value
              again == set(World, t, result.args[2], result.args[3])
          IN  /\ IsOk(again.out)
              /\ root(again.w.structures[again.out.value]) = root(structures[t])
              /\ again.w.structures[again.out.value].elements = structures[t].elements

RECURSIVE ReplaySets(_, _, _)
\* the sets evolver e has recorded, made on evolver e of world w
ReplaySets(w, e, todo) ==
    IF todo = {} THEN w
    ELSE LET i == CHOOSE x \in todo : TRUE
         IN  ReplaySets(evolver_set(w, e, i, written[e][i].value).w, e, todo \ {i})

RECURSIVE ReplayAppends(_, _, _)
\* the appends evolver e has recorded, made on evolver e of world w
ReplayAppends(w, e, values) ==
    IF values = <<>> THEN w
    ELSE ReplayAppends(evolver_append(w, e, Head(values)).w, e, Tail(values))

\* Evolver e run alone: a new evolver of its original, with no other evolver around,
\* on which the edits of e are made.
Alone(e) ==
    LET w0 == [structures |-> structures, evolvers |-> [x \in DOMAIN evolvers |-> NoEvolver]]
        w1 == evolver(w0, e, evolvers[e].original).w
    IN  ReplayAppends(ReplaySets(w1, e, DOMAIN written[e]), e, pushed[e])

\* two evolvers hold the same edits of the same original
SameEdits(a, b) ==
    /\ a.original = b.original
    /\ DictAsMap(a.updated_elements) = DictAsMap(b.updated_elements)
    /\ a.appended_elements = b.appended_elements

\* two calls end the same way: the same exception, or structures with the same
\* elements and the same root
SameResult(out1, w1, out2, w2) ==
    /\ out1.kind = out2.kind
    /\ out1.error = out2.error
    /\ IsOk(out1) => /\ w1.structures[out1.value].elements = w2.structures[out2.value].elements
                     /\ root(w1.structures[out1.value]) = root(w2.structures[out2.value])

\* every evolver holds the edits, and persistent() ends the way, of the evolver run alone
IndependentOfOthers ==
    \A e \in Live(EvolverIds) :
        /\ SameEdits(evolvers[e], Alone(e).evolvers[e])
        /\ (result.op = "evolver.persistent" /\ result.args[1] = e)
              => SameResult(result.out, World, persistent(Alone(e), e).out,
                            persistent(Alone(e), e).w)

MsetIndices(args) == {args[2 * k - 1] : k \in 1 .. Len(args) \div 2}

\* (C11) Set commutativity: s.set(i, a) with i in range returns a structure, and for
\* every other index j in range and value b, s.set(i, a).set(j, b) and
\* s.set(j, b).set(i, a) have equal roots and equal element sequences.
C11_SetCommutativity ==
    (/\ result.op = "set"
     /\ Len(structures[result.args[1]].elements) >= 2
     /\ result.args[2] \in 0 .. Len(structures[result.args[1]].elements) - 1)
    => /\ IsOk(result.out)
       /\ \A j \in 0 .. Len(structures[result.args[1]].elements) - 1 : \A b \in Values :
             j # result.args[2] =>
                LET ij == set(World, result.out.value, j, b)
                    jfirst == set(World, result.args[1], j, b)
                    ji == set(jfirst.w, jfirst.out.value, result.args[2], result.args[3])
                IN  /\ IsOk(ij.out) /\ IsOk(jfirst.out) /\ IsOk(ji.out)
                    /\ root(ij.w.structures[ij.out.value]) = root(ji.w.structures[ji.out.value])
                    /\ ij.w.structures[ij.out.value].elements
                          = ji.w.structures[ji.out.value].elements

\* (C12) Concat associativity: s.extend(a) with a not empty and within the capacity
\* returns a list with the from-scratch root of the elements of s followed by a, and
\* for every b within the capacity s.extend(a).extend(b) and s.extend(a + b) have
\* equal roots; append(A) on a list does what extend([A]) does.
C12_ConcatAssociativity ==
    (/\ result.op \in {"extend", "add", "append"}
     /\ LET a == IF result.op = "append" THEN <<result.args[2]>> ELSE result.args[2]
        IN  /\ a # <<>>
            /\ Fits(structures[result.args[1]].elements \o a, structures[result.args[1]].sedes))
    => /\ IsOk(result.out)
       /\ LET a == IF result.op = "append" THEN <<result.args[2]>> ELSE result.args[2]
              s == structures[result.args[1]]
              t == structures[result.out.value]
          IN  /\ root(t) = ScratchRoot(s.cls, s.elements \o a, s.sedes)
              /\ \A b \in SeqsUpTo(Values, 1) :
                    Fits(s.elements \o a \o b, s.sedes) =>
                       LET ab == extend(World, result.out.value, b)
                           once == extend(World, result.args[1], a \o b)
                       IN  /\ IsOk(ab.out) /\ IsOk(once.out)
                           /\ root(ab.w.structures[ab.out.value])
                                 = root(once.w.structures[once.out.value])

\* an mset or set call that fails the way the arguments require: an odd number of
\* arguments with TypeError, else an index outside [0, len(s)) with IndexError
FailsAsRequired(op, args, out) ==
    /\ (op = "mset" /\ Len(args[2]) % 2 = 1) => out = Raise(ODD_ARGS)
    /\ (/\ op = "mset"
        /\ Len(args[2]) % 2 = 0
        /\ \E i \in MsetIndices(args[2]) : i \notin 0 .. Len(structures[args[1]].elements) - 1)
       => out = Raise(INDEX_ERROR)
    /\ (op = "set" /\ args[2] \notin 0 .. Len(structures[args[1]].elements) - 1)
       => out = Raise(INDEX_ERROR)

\* (C13) mset with an odd number of arguments fails with TypeError (ArgumentError),
\* mset and set with an index outside [0, len(s)), a negative one included, fail
\* with IndexError (IndexOutOfRange), also when earlier pairs of the call were
\* valid; a failed mset or set adds no structure and changes none.
C13_MsetErrors ==
    /\ [](result.op \in {"mset", "set"} => FailsAsRequired(result.op, result.args, result.out))
    /\ [][(result'.op \in {"mset", "set"} /\ ~IsOk(result'.out)) => structures' = structures]_vars

\* mset was called with a valid pair followed by a pair with a negative index, and
\* failed with IndexError
C13_Witness ==
    /\ result.op = "mset"
    /\ Len(result.args[2]) = 4
    /\ result.args[2][1] \in 0 .. Len(structures[result.args[1]].elements) - 1
    /\ result.args[2][3] = -1
    /\ result.out = Raise(INDEX_ERROR)

Vectors == {s \in Structures : structures[s].cls = "HashableVector"}

\* (C14) Every vector has exactly sedes.length elements and its root is its raw_root,
\* with no length mixed in, whatever set or mset was called; HashableVector.from_iterable
\* fails with ValueError (LengthMismatch) exactly when the number of elements differs
\* from sedes.length.
C14_VectorLength ==
    /\ \A s \in Vectors :
          /\ Len(structures[s].elements) = structures[s].sedes.length
          /\ root(structures[s]) = raw_root(structures[s])
          /\ root(structures[s]) = structures[s].hash_tree.root
    /\ result.op = "HashableVector.from_iterable"
          => IF Len(result.args[1]) # result.args[2].length
             THEN result.out = Raise(VALUE_ERROR) /\ structures = <<>>
             ELSE IsOk(result.out) /\ structures[result.out.value].elements = result.args[1]

\* a vector of MaxLen elements exists and set or mset was called on it
C14_Witness ==
    /\ result.op \in {"set", "mset"}
    /\ result.args[1] \in Vectors
    /\ Len(structures[result.args[1]].elements) = MaxLen

\* (C15) is_dirty() is true iff the evolver has recorded an edit: an accepted set, an
\* append, or an extend by at least one element; persistent() on an evolver that is
\* not dirty returns the original structure itself, and no structure changes.
C15_Dirty ==
    /\ [](/\ \A e \in Live({1}) : is_dirty(World, e) <=> Edited(e)
          /\ (result.op = "evolver.persistent" /\ ~Edited(result.args[1]))
                => result.out = Ok(evolvers[result.args[1]].original))
    /\ [][(result'.op = "evolver.persistent" /\ ~Edited(result.args[1])')
             => structures' = structures]_vars

\* persistent() was called on an evolver without edits, of a structure of MaxLen
\* elements, and returned that structure
C15_Witness ==
    /\ result.op = "evolver.persistent"
    /\ ~Edited(result.args[1])
    /\ result.out = Ok(evolvers[result.args[1]].original)
    /\ Len(structures[evolvers[result.args[1]].original].elements) = MaxLen

RECURSIVE Copies(_, _)
\* n consecutive copies of a sequence
Copies(seq, n) == IF n <= 0 THEN <<>> ELSE seq \o Copies(seq, n - 1)

\* (C16) s * n fails with ValueError (ArgumentError) for n <= 0, returns s itself for
\* n = 1, and for n > 1 returns a list whose elements are n consecutive copies of the
\* elements of s, when these fit the capacity.
C16_Repeat ==
    result.op = "mul" =>
        LET s == result.args[1]
            n == result.args[2]
        IN  /\ n <= 0 => result.out = Raise(VALUE_ERROR)
            /\ n = 1 => result.out = Ok(s)
            /\ (n > 1 /\ Fits(Copies(structures[s].elements, n), structures[s].sedes))
                  => /\ IsOk(result.out)
                     /\ structures[result.out.value].elements = Copies(structures[s].elements, n)
                     /\ Len(structures[result.out.value].elements)
                           = n * Len(structures[s].elements)

\* (C17) Capacity: the chunks of every structure fit the 2^d leaves of its tree, and
\* persistent() on an evolver whose appended elements need more chunks than that
\* fails with the capacity error of the hash tree and returns no structure.
C17_Capacity ==
    /\ \A s \in Structures :
          Len(chunks(structures[s])) <= Pow2(structures[s].hash_tree.depth)
    /\ (/\ result.op = "evolver.persistent"
        /\ Len(pushed[result.args[1]]) > 0
        /\ ~Fits(Expected(result.args[1]), Original(result.args[1]).sedes))
       => result.out = Raise(VALUE_ERROR)

\* the size of the serialized elements of a structure
ElementSize(sedes) == Len(serialize_element_for_tree(sedes, 0, 0))

\* the padding count computed for a structure
PaddingOf(structure) ==
    get_num_padding_elements(Len(chunks(structure)), Len(structure.elements),
                             ElementSize(structure.sedes))

\* the appended elements of evolver e as persistent() serializes them
SerializedAppended(e) ==
    [k \in 1 .. Len(evolvers[e].appended_elements) |->
        serialize_element_for_tree(Original(e).sedes, Len(Original(e).elements) + k - 1,
                                   evolvers[e].appended_elements[k])]

\* the structures of composite elements
Composites == {s \in Structures : structures[s].sedes.element = "bytes16"}

\* (C18, as claimed) For composite elements the padding count computed for a
\* structure is 0, for the empty structure too, so that every appended composite
\* element forms a new chunk.
C18_PaddingZero ==
    /\ \A s \in Composites : PaddingOf(structures[s]) = 0
    /\ \A e \in Live({1}) :
          evolvers[e].original \in Composites
             => get_appended_chunks(SerializedAppended(e), PaddingOf(Original(e)))
                   = Ok(SerializedAppended(e))

\* (C18, amended) For composite elements the padding count computed for a structure
\* is 0 when the structure has elements and 1 when it is empty (its single chunk is
\* the zero chunk): the first element appended to an empty structure replaces the
\* zero chunk, every other appended element forms a new chunk.
C18_Padding ==
    /\ \A s \in Composites :
          PaddingOf(structures[s]) = IF structures[s].elements = <<>> THEN 1 ELSE 0
    /\ \A e \in Live({1}) :
          evolvers[e].original \in Composites
             => LET a == SerializedAppended(e)
                    n == PaddingOf(Original(e))
                    updated == get_updated_chunks(<<>>, a, chunks(Original(e)),
                                                  Len(Original(e).elements), n)
                IN  IF Original(e).elements = <<>> /\ a # <<>>
                    THEN /\ get_appended_chunks(a, n) = Ok(Tail(a))
                         /\ updated = Ok(<< <<0, a[1]>> >>)
                    ELSE /\ get_appended_chunks(a, n) = Ok(a)
                         /\ updated = Ok(<<>>)

\* an evolver of an empty list of composite elements has recorded two appends
C18_Witness ==
    \E e \in Live({1}) :
        /\ evolvers[e].original \in Composites
        /\ Original(e).elements = <<>>
        /\ Len(evolvers[e].appended_elements) = 2

\* chunk is the 32-byte leaf of a composite element: the 16 bytes of the value,
\* right-padded with 16 zero bytes
IsLeafOf(chunk, element) ==
    /\ Len(chunk) = CHUNK_SIZE
    /\ \A k \in 1 .. CHUNK_SIZE : chunk[k] = IF k <= BYTES16_SIZE THEN element ELSE 0

\* the raw root of a structure is the Merkle root of its chunks, padded with zero
\* chunks up to the capacity: the length of a vector, the max_length of a list
RootOverCapacity(structure) ==
    raw_root(structure)
        = MerkleRoot(chunks(structure), CeilLog2(Max(structure.sedes.length, 1)))

\* (C19, as claimed) Every structure of composite elements has exactly one chunk per
\* element, chunk i being the leaf of element i, and its raw root is the Merkle root
\* of these chunks padded with zero chunks up to the capacity.
C19_OneChunkPerElement ==
    \A s \in Composites :
        /\ Len(chunks(structures[s])) = Len(structures[s].elements)
        /\ \A i \in 1 .. Len(structures[s].elements) :
              IsLeafOf(chunks(structures[s])[i], structures[s].elements[i])
        /\ RootOverCapacity(structures[s])

\* (C19, amended) A structure of composite elements that has elements has exactly one
\* chunk per element, chunk i being the leaf of element i; an empty one has the
\* single zero chunk; the raw root is the Merkle root of the chunks padded with zero
\* chunks up to the capacity.
C19_CompositeChunks ==
    \A s \in Composites :
        /\ IF structures[s].elements = <<>>
           THEN chunks(structures[s]) = <<ZERO_BYTES32>>
           ELSE /\ Len(chunks(structures[s])) = Len(structures[s].elements)
                /\ \A i \in 1 .. Len(structures[s].elements) :
                      IsLeafOf(chunks(structures[s])[i], structures[s].elements[i])
        /\ RootOverCapacity(structures[s])

\* a list of two different composite elements with max_length 4 exists: its raw root
\* is H(H(leaf 1 || leaf 2) || H(ZERO_CHUNK || ZERO_CHUNK))
C19_Witness ==
    \E s \in Composites :
        /\ structures[s].sedes = [type |-> "List", element |-> "bytes16", length |-> MAX_LENGTH]
        /\ Len(structures[s].elements) = 2
        /\ structures[s].elements[1] # structures[s].elements[2]
        /\ raw_root(structures[s])
              = H(H(chunks(structures[s])[1], chunks(structures[s])[2]),
                  H(ZERO_BYTES32, ZERO_BYTES32))

RECURSIVE NodesAbove(_, _)
\* the nodes k levels above a full layer of nodes
NodesAbove(layer, k) ==
    IF k = 0 THEN layer
    ELSE NodesAbove([q \in 1 .. Len(layer) \div 2 |-> H(layer[2 * q - 1], layer[2 * q])], k - 1)

\* the nodes of a tree at level k: level 0 holds the 2^d leaves, level d the root
TreeNodes(tree, k) ==
    NodesAbove(tree.chunks \o [q \in 1 .. Pow2(tree.depth) - Len(tree.chunks) |-> ZERO_BYTES32], k)

\* (C20) Structural sharing: s.set(i, v) with i in range returns a structure whose
\* tree differs from the tree of s in at most one node per level, the affected leaf
\* and the nodes on its path to the root; every other node is the node of s.
C20_StructuralSharing ==
    (/\ result.op = "set"
     /\ result.args[2] \in 0 .. Len(structures[result.args[1]].elements) - 1)
    => /\ IsOk(result.out)
       /\ LET old == structures[result.args[1]].hash_tree
              new == structures[result.out.value].hash_tree
              at == result.args[2] \div (CHUNK_SIZE \div ElementSize(structures[result.args[1]].sedes))
          IN  /\ new.depth = old.depth
              /\ \A k \in 0 .. old.depth :
                    \A q \in 1 .. Pow2(old.depth - k) :
                        q # (at \div Pow2(k)) + 1 => TreeNodes(new, k)[q] = TreeNodes(old, k)[q]

\* the updated elements of evolver e as persistent() serializes them
SerializedUpdated(e) ==
    [k \in 1 .. Len(evolvers[e].updated_elements) |->
        <<evolvers[e].updated_elements[k][1],
          serialize_element_for_tree(Original(e).sedes, evolvers[e].updated_elements[k][1],
                                     evolvers[e].updated_elements[k][2])>>]

\* (C21) persistent() splits the appended elements at the one point
\* n_padding = get_num_padding_elements(|original.chunks|, len(original), element_size):
\* the chunks of the structure it returns are the original chunks with the chunks of
\* get_updated_chunks(.., n_padding) written over them, followed by the chunks of
\* get_appended_chunks(.., n_padding), so that every appended element is in the
\* result exactly once.
C21_SplitAtPadding ==
    (/\ result.op = "evolver.persistent"
     /\ Len(pushed[result.args[1]]) > 0
     /\ Fits(Expected(result.args[1]), Original(result.args[1]).sedes))
    => LET e == result.args[1]
           n_padding == PaddingOf(Original(e))
           updated_chunks == get_updated_chunks(SerializedUpdated(e), SerializedAppended(e),
                                 chunks(Original(e)), Len(Original(e).elements), n_padding)
           appended_chunks == get_appended_chunks(SerializedAppended(e), n_padding)
       IN  /\ IsOk(updated_chunks)
           /\ IsOk(appended_chunks)
           /\ IsOk(result.out)
           /\ chunks(structures[result.out.value])
                 = MsetChunks(chunks(Original(e)), updated_chunks.value) \o appended_chunks.value
           /\ structures[result.out.value].elements = Expected(e)
\* (C24) update_element_in_chunk(chunk, index, element) fails with ValueError
\* (InvalidElementSize) when the element size is zero or does not divide the chunk
\* size, fails with IndexError (IndexOutOfRange) when index is outside
\* [0, chunk_size / element_size), and otherwise returns a chunk of the same length
\* that holds the element in the bytes [index * size, (index + 1) * size) and the
\* bytes of the original chunk everywhere else.
C24_UpdateElementInChunk ==
    result.op = "update_element_in_chunk"
    => LET chunk == result.args[1]
           index == result.args[2]
           element == result.args[3]
           size == Len(element)
       IN  IF size = 0 \/ Len(chunk) % size # 0
           THEN result.out = Raise(VALUE_ERROR)
           ELSE IF index < 0 \/ index >= Len(chunk) \div size
           THEN result.out = Raise(INDEX_ERROR)
           ELSE /\ IsOk(result.out)
                /\ Len(result.out.value) = Len(chunk)
                /\ \A b \in 1 .. Len(chunk) :
                      result.out.value[b] =
                          IF index * size < b /\ b <= (index + 1) * size
                          THEN element[b - index * size]
                          ELSE chunk[b]

\* an element shorter than the chunk has replaced a slot after the first one of a
\* chunk whose bytes are all different
C24_Witness ==
    /\ result.op = "update_element_in_chunk"
    /\ IsOk(result.out)
    /\ result.args[1] = RAMP_BYTES32
    /\ result.args[2] > 0
    /\ Len(result.args[3]) < CHUNK_SIZE
\* (C23) get_appended_chunks(appended_elements, n_padding), on elements of one size
\* that divides the chunk size, returns no chunk when
\* len(appended_elements) <= n_padding, and otherwise
\* ceil((len(appended_elements) - n_padding) / elements_per_chunk) chunks of exactly
\* 32 bytes each, whose concatenation is the elements after the first n_padding in
\* their order, followed only by zero bytes.
C23_GetAppendedChunks ==
    result.op = "get_appended_chunks"
    => LET appended_elements == result.args[1]
           n_padding == result.args[2]
       IN  IF Len(appended_elements) <= n_padding
           THEN result.out = Ok(<<>>)
           ELSE LET elements_per_chunk == CHUNK_SIZE \div Len(appended_elements[1])
                    remaining == Drop(appended_elements, n_padding)
                    count == (Len(remaining) + elements_per_chunk - 1) \div elements_per_chunk
                    bytes == Concat(remaining)
                IN  /\ IsOk(result.out)
                    /\ Len(result.out.value) = count
                    /\ \A k \in 1 .. count : Len(result.out.value[k]) = CHUNK_SIZE
                    /\ Concat(result.out.value)
                          = bytes \o ZeroBytes(count * CHUNK_SIZE - Len(bytes))

\* elements were dropped for the padding and the remaining ones do not fill their
\* last chunk
C23_Witness ==
    /\ result.op = "get_appended_chunks"
    /\ result.args[2] >= 1
    /\ IsOk(result.out)
    /\ result.out.value # <<>>
    /\ \E k \in 1 .. CHUNK_SIZE : Concat(result.args[1])[k] # 0
    /\ ((Len(result.args[1]) - result.args[2]) * Len(result.args[1][1])) % CHUNK_SIZE # 0
\* (C22) get_updated_chunks returns a mapping whose keys are exactly the chunk
\* indices element_index // elements_per_chunk of the updated elements and of the
\* first n_padding appended elements, which are placed at the element indices
\* n_orig_elements, n_orig_elements + 1, ...; every key is the index of an original
\* chunk; each returned chunk is the original chunk except in the replaced slots;
\* the appended elements after the first n_padding are ignored; the mapping is
\* empty when there is no update and no appended element within the padding.
C22_GetUpdatedChunks ==
    result.op = "get_updated_chunks"
    => LET updated_elements == result.args[1]
           spilled == Take(result.args[2], result.args[5])
           original_chunks == result.args[3]
           n_orig_elements == result.args[4]
           slots == DictAsMap(updated_elements)
                    @@ [i \in n_orig_elements .. n_orig_elements + Len(spilled) - 1 |->
                           spilled[i - n_orig_elements + 1]]
           returned == result.out.value
       IN  /\ IsOk(result.out)
           /\ DOMAIN slots = {} => returned = <<>>
           /\ DOMAIN slots # {} =>
                 LET size == Len(slots[CHOOSE i \in DOMAIN slots : TRUE])
                     elements_per_chunk == CHUNK_SIZE \div size
                 IN  /\ {returned[k][1] : k \in 1 .. Len(returned)}
                           = {i \div elements_per_chunk : i \in DOMAIN slots}
                     /\ \A j, k \in 1 .. Len(returned) : returned[j][1] = returned[k][1] => j = k
                     /\ \A k \in 1 .. Len(returned) :
                           LET c == returned[k][1]
                               chunk == returned[k][2]
                           IN  /\ c \in 0 .. Len(original_chunks) - 1
                               /\ Len(chunk) = CHUNK_SIZE
                               /\ \A p \in 0 .. elements_per_chunk - 1 :
                                     SubSeq(chunk, p * size + 1, (p + 1) * size) =
                                         IF c * elements_per_chunk + p \in DOMAIN slots
                                         THEN slots[c * elements_per_chunk + p]
                                         ELSE SubSeq(original_chunks[c + 1],
                                                     p * size + 1, (p + 1) * size)

\* an element was updated, appended elements went into the padding and others were
\* beyond it
C22_Witness ==
    /\ result.op = "get_updated_chunks"
    /\ IsOk(result.out)
    /\ Len(result.args[1]) >= 1
    /\ result.args[5] >= 1
    /\ Len(result.args[2]) > result.args[5]
GrownCount ==
    LET count == Len(structures[result.args[1]].elements)
    IN  CASE result.op = "append" -> count + 1
          [] result.op \in {"extend", "add"} -> count + Len(result.args[2])
          [] result.op = "mul" -> count * result.args[2]

InvariantErrors == {INVARIANT_END_INDEX, INVARIANT_PROGRESS, INVARIANT_CONSUMED}

RECURSIVE HasUnsizedTuple(_)
\* sedes holds a tuple of no elements whose element sedes has no fixed length
HasUnsizedTuple(sedes) ==
    /\ sedes.kind = "tuple"
    /\ \/ sedes.number_of_elements = 0 /\ ~IsOk(get_fixed_length(sedes.element_sedes))
       \/ HasUnsizedTuple(sedes.element_sedes)

\* (C27, as claimed) No decoder call ends in an internal consistency check; every
\* successful deserialize_segment and every successful consume_bytes returns a
\* continuation index greater than the start index and at most len(data); a call
\* that fails fails with DeserializationError.
C27_ChecksNeverFire ==
    /\ result.out.error \notin InvariantErrors
    /\ (result.op \in {"deserialize_segment", "consume_bytes"} /\ IsOk(result.out))
          => /\ result.out.value[2] > result.args[Len(result.args) - 1]
             /\ result.out.value[2] <= Len(result.args[Len(result.args) - 2])
    /\ (result.op \in {"deserialize", "deserialize_segment", "deserialize_content",
                       "consume_bytes"} /\ ~IsOk(result.out))
          => result.out.error = DESERIALIZATION_ERROR
\* (C27, amended) No decoder call ends in an internal consistency check. Every
\* successful deserialize_segment returns a continuation index greater than the
\* start index and at most len(data); every successful consume_bytes returns
\* start_index + num_bytes, which is at most len(data) and equals the start index
\* when no byte is read. A call that fails fails with DeserializationError, or with
\* the ValueError of get_fixed_length when the sedes holds a tuple of no elements
\* whose element sedes has no fixed length.
C27_Decoders ==
    /\ result.out.error \notin InvariantErrors
    /\ (result.op = "deserialize_segment" /\ IsOk(result.out))
          => /\ result.out.value[2] > result.args[3]
             /\ result.out.value[2] <= Len(result.args[2])
    /\ (result.op = "consume_bytes" /\ IsOk(result.out))
          => /\ result.out.value[2] = result.args[2] + result.args[3]
             /\ result.out.value[2] >= result.args[2]
             /\ result.out.value[2] <= Len(result.args[1])
    /\ (result.op \in {"deserialize", "deserialize_segment", "deserialize_content"}
        /\ ~IsOk(result.out))
          => \/ result.out.error = DESERIALIZATION_ERROR
             \/ result.out.error = VALUE_ERROR /\ HasUnsizedTuple(result.args[1])
    /\ (result.op = "consume_bytes" /\ ~IsOk(result.out))
          => result.out.error = DESERIALIZATION_ERROR

\* a tuple of two variable-length values was decoded of which one has no content:
\* the consume_bytes that read its content returned the index it started at
C27_Witness ==
    /\ result.op = "deserialize"
    /\ IsOk(result.out)
    /\ result.args[1].kind = "tuple"
    /\ result.args[1].number_of_elements = 2
    /\ is_variable_length(result.args[1])
    /\ \E k \in 1 .. 2 : result.out.value[k] = <<>>
====
